---- MODULE Spec2Model ----
(***************************************************************************)
(* StoryForge project data model (backend/project.py): the document tree   *)
(* kept in Project._state["blocks"], the CRUD operations that mutate it    *)
(* and the reference operations that read it.                              *)
(*                                                                         *)
(* A Python str is a sequence of one-character strings, so that strip,     *)
(* split and the regular expression REFERENCE_PATTERN are computed on      *)
(* characters.  A dict is a function with a finite domain; a block (the    *)
(* dict stage name -> stage) is a sequence of stage records, because the   *)
(* code reads its insertion order (the first stage is the default stage).  *)
(* None is the record None, a returned value v is Some(v), and a raised    *)
(* exception e is Raised(e).                                               *)
(***************************************************************************)
EXTENDS Integers, Sequences, FiniteSets, Bags, TLC

VARIABLES
    has_blocks,   \* "blocks" in self._state
    blocks,       \* self._state["blocks"]: category -> block name -> block
    call,         \* the last call made on the project and what it returned
    nops,         \* number of mutating calls made so far
    before        \* history: self._state["blocks"] as it was before the last
                  \* mutating call (the program keeps no such copy)

vars == <<has_blocks, blocks, call, nops, before>>

-----------------------------------------------------------------------------
(* Bounds of the model *)

MaxOps == 2

-----------------------------------------------------------------------------
(* Values *)

None == [some |-> FALSE]
Some(v) == [some |-> TRUE, val |-> v]
Raised(e) == [some |-> FALSE, exc |-> e]

EmptyDict == <<>>

DictPut(d, k, v) == [x \in (DOMAIN d) \cup {k} |-> IF x = k THEN v ELSE d[x]]

DictDel(d, k) == [x \in (DOMAIN d) \ {k} |-> d[x]]

DictGet(d, k) == IF k \in DOMAIN d THEN Some(d[k]) ELSE None

-----------------------------------------------------------------------------
(* Strings *)

RECURSIVE Concat(_)
Concat(ss) == IF ss = <<>> THEN <<>> ELSE Head(ss) \o Concat(Tail(ss))

RECURSIVE LStrip(_, _)
LStrip(s, chars) ==
    IF s # <<>> /\ Head(s) \in chars THEN LStrip(Tail(s), chars) ELSE s

RECURSIVE RStrip(_, _)
RStrip(s, chars) ==
    IF s # <<>> /\ s[Len(s)] \in chars
    THEN RStrip(SubSeq(s, 1, Len(s) - 1), chars)
    ELSE s

\* str.strip(chars)
Strip(s, chars) == RStrip(LStrip(s, chars), chars)

\* str.split(sep) for a one-character separator: always at least one part
RECURSIVE SplitFrom(_, _, _)
SplitFrom(s, sep, cur) ==
    IF s = <<>> THEN <<cur>>
    ELSE IF Head(s) = sep THEN <<cur>> \o SplitFrom(Tail(s), sep, <<>>)
    ELSE SplitFrom(Tail(s), sep, Append(cur, Head(s)))

Split(s, sep) == SplitFrom(s, sep, <<>>)

-----------------------------------------------------------------------------
(* Stages and blocks *)

_create_stage(input_text) ==
    [input |-> input_text, selected |-> "", output |-> EmptyDict]

\* the stage record of a block entry and its key
StageNames(block) == {block[i].name : i \in DOMAIN block}

StageIndex(block, stage) ==
    IF \E i \in DOMAIN block : block[i].name = stage
    THEN CHOOSE i \in DOMAIN block : block[i].name = stage
    ELSE 0

\* block_data.get(stage)
BlockGet(block, stage) ==
    IF StageIndex(block, stage) = 0 THEN None
    ELSE Some(block[StageIndex(block, stage)].data)

\* a variant of BlockPut that moves an existing key to the end, as a
\* deletion followed by an insertion would
BlockPut_reinsert(block, stage, data) ==
    LET i == StageIndex(block, stage)
    IN IF i = 0
       THEN Append(block, [name |-> stage, data |-> data])
       ELSE Append(SubSeq(block, 1, i - 1) \o SubSeq(block, i + 1, Len(block)),
                   [name |-> stage, data |-> data])

\* block_data[stage] = stage_data: an existing key keeps its position, a new
\* key is appended
BlockPut(block, stage, data) ==
    IF StageIndex(block, stage) = 0
    THEN Append(block, [name |-> stage, data |-> data])
    ELSE [block EXCEPT ![StageIndex(block, stage)].data = data]

\* del block_data[stage]
BlockDel(block, stage) ==
    LET i == StageIndex(block, stage)
    IN SubSeq(block, 1, i - 1) \o SubSeq(block, i + 1, Len(block))

-----------------------------------------------------------------------------
(* Lookups *)

\* Project.get_block: self._state["blocks"].get(category, {}).get(name)
get_block(bs, category, name) ==
    IF category \in DOMAIN bs THEN DictGet(bs[category], name) ELSE None

\* Project.get_stage
get_stage(bs, category, block, stage) ==
    LET block_data == get_block(bs, category, block)
    IN IF block_data = None THEN None ELSE BlockGet(block_data.val, stage)

\* Project.get_selected_output
get_selected_output(bs, category, block, stage) ==
    LET stage_data == get_stage(bs, category, block, stage)
    IN IF stage_data = None THEN None
       ELSE IF stage_data.val.selected = "" THEN None
       ELSE DictGet(stage_data.val.output, stage_data.val.selected)

-----------------------------------------------------------------------------
(* Reference resolution *)

\* a variant of _find_block_by_name that takes a match when several exist
_find_block_by_name_any(bs, name) ==
    LET matches == {category \in DOMAIN bs : name \in DOMAIN bs[category]}
    IN IF Cardinality(matches) >= 1
       THEN LET category == CHOOSE c \in matches : TRUE
            IN Some(<<category, bs[category][name]>>)
       ELSE None

\* Project._find_block_by_name: (category, block_data) if exactly one
\* category holds a block of that name, None otherwise
_find_block_by_name(bs, name) ==
    LET matches == {category \in DOMAIN bs : name \in DOMAIN bs[category]}
    IN IF Cardinality(matches) = 1
       THEN LET category == CHOOSE c \in matches : TRUE
            IN Some(<<category, bs[category][name]>>)
       ELSE None

\* a variant of _get_stage_output that subscripts the output dict:
\* output[selected] raises KeyError for a key that is no version key
_get_stage_output_subscript(block_data, stage) ==
    LET stage_data == BlockGet(block_data, stage)
    IN IF stage_data = None THEN None
       ELSE IF stage_data.val.selected = "" THEN None
       ELSE IF stage_data.val.selected \in DOMAIN stage_data.val.output
       THEN Some(stage_data.val.output[stage_data.val.selected])
       ELSE Raised("KeyError")

\* a variant of _get_stage_output that reads the first stage whatever the
\* stage asked for
_get_stage_output_first(block_data, stage) ==
    IF block_data = <<>> THEN None
    ELSE IF block_data[1].data.selected = "" THEN None
    ELSE DictGet(block_data[1].data.output, block_data[1].data.selected)

\* Project._get_stage_output
_get_stage_output(block_data, stage) ==
    LET stage_data == BlockGet(block_data, stage)
    IN IF stage_data = None THEN None
       ELSE IF stage_data.val.selected = "" THEN None
       ELSE DictGet(stage_data.val.output, stage_data.val.selected)

\* a variant of _get_default_stage_output that falls through to the first
\* stage that has an output
_get_default_stage_output_any(block_data) ==
    LET with == {i \in DOMAIN block_data :
                    _get_stage_output(block_data, block_data[i].name) # None}
    IN IF with = {} THEN None
       ELSE _get_stage_output(block_data,
                block_data[CHOOSE i \in with : \A k \in with : i <= k].name)

\* a variant of _get_default_stage_output that reads the last stage
_get_default_stage_output_last(block_data) ==
    IF block_data = <<>> THEN None
    ELSE _get_stage_output(block_data, block_data[Len(block_data)].name)

\* Project._get_default_stage_output: the output of the first stage
_get_default_stage_output(block_data) ==
    IF block_data = <<>> THEN None
    ELSE _get_stage_output(block_data, block_data[1].name)

\* a variant of resolve_reference that raises InvalidReferenceError for a
\* reference that has not 1, 2 or 3 segments
resolve_reference_raising(bs, ref) ==
    LET parts == Split(Strip(ref, {"[", "]"}), ":")
    IN IF Len(parts) = 1 THEN
           LET found == _find_block_by_name(bs, parts[1])
           IN IF found = None THEN None
              ELSE _get_default_stage_output(found.val[2])
       ELSE IF Len(parts) = 2 THEN
           LET block_data == get_block(bs, parts[1], parts[2])
               found == _find_block_by_name(bs, parts[1])
           IN IF block_data # None
              THEN _get_default_stage_output(block_data.val)
              ELSE IF found # None
              THEN _get_stage_output(found.val[2], parts[2])
              ELSE None
       ELSE IF Len(parts) = 3 THEN
           LET block_data == get_block(bs, parts[1], parts[2])
           IN IF block_data = None THEN None
              ELSE _get_stage_output(block_data.val, parts[3])
       ELSE Raised("InvalidReferenceError")

\* a variant of resolve_reference that tries [block:stage] before
\* [category:block]
resolve_reference_stage_first(bs, ref) ==
    LET parts == Split(Strip(ref, {"[", "]"}), ":")
    IN IF Len(parts) = 1 THEN
           LET found == _find_block_by_name(bs, parts[1])
           IN IF found = None THEN None
              ELSE _get_default_stage_output(found.val[2])
       ELSE IF Len(parts) = 2 THEN
           LET block_data == get_block(bs, parts[1], parts[2])
               found == _find_block_by_name(bs, parts[1])
           IN IF found # None
              THEN _get_stage_output(found.val[2], parts[2])
              ELSE IF block_data # None
              THEN _get_default_stage_output(block_data.val)
              ELSE None
       ELSE IF Len(parts) = 3 THEN
           LET block_data == get_block(bs, parts[1], parts[2])
           IN IF block_data = None THEN None
              ELSE _get_stage_output(block_data.val, parts[3])
       ELSE None

\* Project.resolve_reference
resolve_reference(bs, ref) ==
    LET parts == Split(Strip(ref, {"[", "]"}), ":")
    IN IF Len(parts) = 1 THEN
           LET found == _find_block_by_name(bs, parts[1])
           IN IF found = None THEN None
              ELSE _get_default_stage_output(found.val[2])
       ELSE IF Len(parts) = 2 THEN
           LET block_data == get_block(bs, parts[1], parts[2])
               found == _find_block_by_name(bs, parts[1])
           IN IF block_data # None
              THEN _get_default_stage_output(block_data.val)
              ELSE IF found # None
              THEN _get_stage_output(found.val[2], parts[2])
              ELSE None
       ELSE IF Len(parts) = 3 THEN
           LET block_data == get_block(bs, parts[1], parts[2])
           IN IF block_data = None THEN None
              ELSE _get_stage_output(block_data.val, parts[3])
       ELSE None

\* whether resolve_reference(ref) reaches _ensure_blocks_section (through
\* get_block or _find_block_by_name)
ResolveEnsuresBlocks(ref) == Len(Split(Strip(ref, {"[", "]"}), ":")) \in 1..3

-----------------------------------------------------------------------------
(* Calls *)

\* a variant of _ensure_blocks_section that assigns the empty section
\* whether or not the state has one
_ensure_blocks_section_reset(hb, bs) == EmptyDict

\* Project._ensure_blocks_section: the blocks section after the call
_ensure_blocks_section(hb, bs) == IF hb THEN bs ELSE EmptyDict

Returned(op, v) == [op |-> op, ret |-> v]

\* The project is single-threaded and synchronous: a call starts when the
\* previous one has returned.  A run of the model is a sequence of mutating
\* calls followed by one reference query: a query leaves the document as it
\* is and no call reads the variable call, so the calls that can follow a
\* query are those of the state the query was made in.
Idle ==
    call.op \notin {"resolve_reference", "expand_references",
                    "find_references_in", "find_references_to"}

Mutate(bs, r) ==
    /\ Idle
    /\ nops < MaxOps
    /\ nops' = nops + 1
    /\ has_blocks' = TRUE          \* _ensure_blocks_section / get_block
    /\ blocks' = bs
    /\ call' = r
    /\ before' = blocks

\* the stage of an existing block replaced by data
WithStage(bs, category, block, stage, data) ==
    [bs EXCEPT ![category][block] = BlockPut(@, stage, data)]

-----------------------------------------------------------------------------
(* Lifecycle *)

\* Project.load of a file that holds only the "storyforge" key: the state
\* has no "blocks" section
Load ==
    /\ Idle
    /\ nops < MaxOps
    /\ nops' = nops + 1
    /\ has_blocks' = FALSE
    /\ blocks' = EmptyDict
    /\ call' = Returned("load", None)
    /\ before' = blocks

-----------------------------------------------------------------------------
(* Category operations *)

create_category(category) ==
    Mutate(IF category \in DOMAIN blocks THEN blocks
           ELSE DictPut(blocks, category, EmptyDict),
           Returned("create_category", None))

delete_category(category) ==
    IF category \in DOMAIN blocks
    THEN Mutate(DictDel(blocks, category), Returned("delete_category", Some(TRUE)))
    ELSE Mutate(blocks, Returned("delete_category", Some(FALSE)))

-----------------------------------------------------------------------------
(* Block CRUD *)

\* a variant of create_block that replaces a block that exists
create_block_overwriting(category, name, stages) ==
    LET bs == IF category \in DOMAIN blocks THEN blocks
              ELSE DictPut(blocks, category, EmptyDict)
        block == IF stages # None THEN stages.val ELSE <<>>
    IN Mutate([bs EXCEPT ![category] = DictPut(@, name, block)],
              Returned("create_block", Some(block)))

\* stages = None stands for the default argument
create_block(category, name, stages) ==
    LET bs == IF category \in DOMAIN blocks THEN blocks
              ELSE DictPut(blocks, category, EmptyDict)
        block == IF stages # None THEN stages.val ELSE <<>>
    IN IF name \in DOMAIN bs[category]
       THEN Mutate(bs, Returned("create_block", Raised("BlockExistsError")))
       ELSE Mutate([bs EXCEPT ![category] = DictPut(@, name, block)],
                   Returned("create_block", Some(block)))

update_block(category, name, stages) ==
    IF get_block(blocks, category, name) = None
    THEN Mutate(blocks, Returned("update_block", Raised("BlockNotFoundError")))
    ELSE Mutate([blocks EXCEPT ![category][name] = stages],
                Returned("update_block", None))

delete_block(category, name) ==
    IF category \notin DOMAIN blocks
    THEN Mutate(blocks, Returned("delete_block", Some(FALSE)))
    ELSE IF name \notin DOMAIN blocks[category]
    THEN Mutate(blocks, Returned("delete_block", Some(FALSE)))
    ELSE Mutate([blocks EXCEPT ![category] = DictDel(@, name)],
                Returned("delete_block", Some(TRUE)))

\* the text with every reference [old_name] replaced by [new_name]
RECURSIVE RewriteReferences(_, _, _)
RewriteReferences(text, old_name, new_name) ==
    LET ref == <<"[">> \o old_name \o <<"]">>
    IN IF text = <<>> THEN <<>>
       ELSE IF Len(text) >= Len(ref) /\ SubSeq(text, 1, Len(ref)) = ref
       THEN <<"[">> \o new_name \o <<"]">>
                \o RewriteReferences(SubSeq(text, Len(ref) + 1, Len(text)),
                                     old_name, new_name)
       ELSE <<Head(text)>> \o RewriteReferences(Tail(text), old_name, new_name)

\* a variant of rename_block that renames the block in the references too:
\* it rewrites the references [old_name] in the inputs of all stages
rename_block_rewriting(category, old_name, new_name) ==
    LET block == get_block(blocks, category, old_name)
        renamed == [blocks EXCEPT
                       ![category] = DictDel(DictPut(@, new_name, block.val), old_name)]
    IN IF block = None
       THEN Mutate(blocks, Returned("rename_block", Raised("BlockNotFoundError")))
       ELSE IF get_block(blocks, category, new_name) # None
       THEN Mutate(blocks, Returned("rename_block", Raised("BlockExistsError")))
       ELSE Mutate([c \in DOMAIN renamed |->
                       [b \in DOMAIN renamed[c] |->
                           [k \in DOMAIN renamed[c][b] |->
                               [renamed[c][b][k] EXCEPT
                                   !.data.input =
                                       RewriteReferences(@, old_name, new_name)]]]],
                   Returned("rename_block", None))

\* a variant of rename_block that does not look for a block of the new name
rename_block_overwriting(category, old_name, new_name) ==
    LET block == get_block(blocks, category, old_name)
    IN IF block = None
       THEN Mutate(blocks, Returned("rename_block", Raised("BlockNotFoundError")))
       ELSE Mutate([blocks EXCEPT
                       ![category] = DictDel(DictPut(@, new_name, block.val), old_name)],
                   Returned("rename_block", None))

rename_block(category, old_name, new_name) ==
    LET block == get_block(blocks, category, old_name)
    IN IF block = None
       THEN Mutate(blocks, Returned("rename_block", Raised("BlockNotFoundError")))
       ELSE IF get_block(blocks, category, new_name) # None
       THEN Mutate(blocks, Returned("rename_block", Raised("BlockExistsError")))
       ELSE Mutate([blocks EXCEPT
                       ![category] = DictDel(DictPut(@, new_name, block.val), old_name)],
                   Returned("rename_block", None))

\* a variant of move_block that leaves the block in the old category too
move_block_keeping_old(old_category, name, new_category) ==
    LET block == get_block(blocks, old_category, name)
        bs == IF new_category \in DOMAIN blocks THEN blocks
              ELSE DictPut(blocks, new_category, EmptyDict)
    IN IF block = None
       THEN Mutate(blocks, Returned("move_block", Raised("BlockNotFoundError")))
       ELSE IF name \in DOMAIN bs[new_category]
       THEN Mutate(bs, Returned("move_block", Raised("BlockExistsError")))
       ELSE Mutate([bs EXCEPT ![new_category] = DictPut(@, name, block.val)],
                   Returned("move_block", None))

move_block(old_category, name, new_category) ==
    LET block == get_block(blocks, old_category, name)
        bs == IF new_category \in DOMAIN blocks THEN blocks
              ELSE DictPut(blocks, new_category, EmptyDict)
    IN IF block = None
       THEN Mutate(blocks, Returned("move_block", Raised("BlockNotFoundError")))
       ELSE IF name \in DOMAIN bs[new_category]
       THEN Mutate(bs, Returned("move_block", Raised("BlockExistsError")))
       ELSE Mutate([[bs EXCEPT ![new_category] = DictPut(@, name, block.val)]
                       EXCEPT ![old_category] = DictDel(@, name)],
                   Returned("move_block", None))

-----------------------------------------------------------------------------
(* Stage operations *)

add_stage(category, block, stage, input_text) ==
    IF get_block(blocks, category, block) = None
    THEN Mutate(blocks, Returned("add_stage", Raised("BlockNotFoundError")))
    ELSE Mutate(WithStage(blocks, category, block, stage, _create_stage(input_text)),
                Returned("add_stage", Some(_create_stage(input_text))))

update_stage_input(category, block, stage, input_text) ==
    LET stage_data == get_stage(blocks, category, block, stage)
    IN IF stage_data = None
       THEN Mutate(blocks, Returned("update_stage_input", Raised("StageNotFoundError")))
       ELSE Mutate(WithStage(blocks, category, block, stage,
                             [stage_data.val EXCEPT !.input = input_text]),
                   Returned("update_stage_input", None))

delete_stage(category, block, stage) ==
    LET block_data == get_block(blocks, category, block)
    IN IF block_data = None
       THEN Mutate(blocks, Returned("delete_stage", Some(FALSE)))
       ELSE IF stage \notin StageNames(block_data.val)
       THEN Mutate(blocks, Returned("delete_stage", Some(FALSE)))
       ELSE Mutate([blocks EXCEPT ![category][block] = BlockDel(@, stage)],
                   Returned("delete_stage", Some(TRUE)))

-----------------------------------------------------------------------------
(* Version operations *)

add_version(category, block, stage, version, content) ==
    LET stage_data == get_stage(blocks, category, block, stage)
    IN IF stage_data = None
       THEN Mutate(blocks, Returned("add_version", Raised("StageNotFoundError")))
       ELSE Mutate(WithStage(blocks, category, block, stage,
                             [stage_data.val EXCEPT
                                 !.output = DictPut(@, version, content)]),
                   Returned("add_version", None))

\* a variant of select_version that does not look for the version
select_version_unchecked(category, block, stage, version) ==
    LET stage_data == get_stage(blocks, category, block, stage)
    IN IF stage_data = None
       THEN Mutate(blocks, Returned("select_version", Raised("StageNotFoundError")))
       ELSE Mutate(WithStage(blocks, category, block, stage,
                             [stage_data.val EXCEPT !.selected = version]),
                   Returned("select_version", None))

select_version(category, block, stage, version) ==
    LET stage_data == get_stage(blocks, category, block, stage)
    IN IF stage_data = None
       THEN Mutate(blocks, Returned("select_version", Raised("StageNotFoundError")))
       ELSE IF version \notin DOMAIN stage_data.val.output
       THEN Mutate(blocks, Returned("select_version", Raised("VersionNotFoundError")))
       ELSE Mutate(WithStage(blocks, category, block, stage,
                             [stage_data.val EXCEPT !.selected = version]),
                   Returned("select_version", None))

\* a variant of delete_version that leaves the selection as it is
delete_version_keeping_selection(category, block, stage, version) ==
    LET stage_data == get_stage(blocks, category, block, stage)
    IN IF stage_data = None
       THEN Mutate(blocks, Returned("delete_version", Some(FALSE)))
       ELSE IF version \notin DOMAIN stage_data.val.output
       THEN Mutate(blocks, Returned("delete_version", Some(FALSE)))
       ELSE Mutate(WithStage(blocks, category, block, stage,
                             [stage_data.val EXCEPT
                                 !.output = DictDel(@, version)]),
                   Returned("delete_version", Some(TRUE)))

delete_version(category, block, stage, version) ==
    LET stage_data == get_stage(blocks, category, block, stage)
    IN IF stage_data = None
       THEN Mutate(blocks, Returned("delete_version", Some(FALSE)))
       ELSE IF version \notin DOMAIN stage_data.val.output
       THEN Mutate(blocks, Returned("delete_version", Some(FALSE)))
       ELSE Mutate(WithStage(blocks, category, block, stage,
                             [stage_data.val EXCEPT
                                 !.output = DictDel(@, version),
                                 !.selected = IF @ = version THEN "" ELSE @]),
                   Returned("delete_version", Some(TRUE)))

-----------------------------------------------------------------------------
\* REFERENCE_PATTERN: an opening bracket, an identifier, at most two groups
\* of a colon and an identifier, a closing bracket; the capture is the text
\* between the brackets

\* [a-zA-Z_] and [a-zA-Z0-9_], over the characters the model's texts use
IdentStart == {"a", "b", "x", "_"}
IdentCont == IdentStart \cup {"1"}

\* the position after the longest run of [a-zA-Z0-9_]* that starts at i
RECURSIVE IdentRun(_, _)
IdentRun(text, i) ==
    IF i <= Len(text) /\ text[i] \in IdentCont THEN IdentRun(text, i + 1) ELSE i

\* the position after an identifier that starts at i, 0 if there is none
IdentEnd(text, i) ==
    IF i <= Len(text) /\ text[i] \in IdentStart THEN IdentRun(text, i + 1) ELSE 0

\* the position after one group (?::identifier) that starts at e, 0 if none
GroupEnd(text, e) ==
    IF e # 0 /\ e <= Len(text) /\ text[e] = ":" THEN IdentEnd(text, e + 1) ELSE 0

\* the pattern matched at position i: the position after the match, 0 if it
\* does not match there.  {0,2} is greedy: two groups are tried, then one,
\* then none.
MatchEnd(text, i) ==
    LET e0 == IF i <= Len(text) /\ text[i] = "[" THEN IdentEnd(text, i + 1) ELSE 0
        e1 == GroupEnd(text, e0)
        e2 == GroupEnd(text, e1)
        Closed(e) == e # 0 /\ e <= Len(text) /\ text[e] = "]"
    IN IF Closed(e2) THEN e2 + 1
       ELSE IF Closed(e1) THEN e1 + 1
       ELSE IF Closed(e0) THEN e0 + 1
       ELSE 0

\* the start of the leftmost match at or after pos, 0 if there is none
NextMatch(text, pos) ==
    LET starts == {i \in pos..Len(text) : MatchEnd(text, i) # 0}
    IN IF starts = {} THEN 0
       ELSE CHOOSE i \in starts : \A k \in starts : i <= k

-----------------------------------------------------------------------------
(* Project.expand_references *)

\* a variant of replace_ref that drops a reference it cannot resolve
replace_ref_dropping(bs, group0, group1) ==
    LET content == resolve_reference(bs, group1)
    IN IF content # None THEN content ELSE Some(<<>>)

\* a variant of replace_ref that raises InvalidReferenceError for a
\* reference it cannot resolve
replace_ref_raising(bs, group0, group1) ==
    LET content == resolve_reference(bs, group1)
    IN IF content # None THEN content ELSE Raised("InvalidReferenceError")

\* a variant of replace_ref that expands a second level: content that is
\* itself a resolvable reference is replaced by what it resolves to
replace_ref_nested(bs, group0, group1) ==
    LET content == resolve_reference(bs, group1)
    IN IF content = None THEN Some(group0)
       ELSE IF content.some /\ MatchEnd(content.val, 1) = Len(content.val) + 1
               /\ resolve_reference(bs, content.val) # None
       THEN resolve_reference(bs, content.val)
       ELSE content

\* replace_ref(match), with group0 = match.group(0), group1 = match.group(1)
replace_ref(bs, group0, group1) ==
    LET content == resolve_reference(bs, group1)
    IN IF content # None THEN content ELSE Some(group0)

\* a variant of SubResume that scans the replacement too: the subject
\* becomes the text with the match replaced, read again from the match
SubResume_rescan(text, i, j, repl) ==
    [text |-> SubSeq(text, 1, i - 1) \o repl \o SubSeq(text, j, Len(text)),
     pos |-> i]

\* where re.sub goes on after replacing the match text[i..j-1] by repl: in
\* the subject text, after the match
SubResume(text, i, j, repl) == [text |-> text, pos |-> j]

expand_references(text) ==
    /\ Idle
    /\ call' = [op |-> "expand_references", arg |-> text, text |-> text,
                pos |-> 1, out |-> <<>>, pc |-> "scan"]
    /\ UNCHANGED <<has_blocks, blocks, nops, before>>

\* one iteration of re.sub: the text up to the next match and the
\* replacement of the match are appended to the result; without a further
\* match the rest of the text is appended and the call returns
expand_step ==
    /\ call.op = "expand_references"
    /\ call.pc = "scan"
    /\ \E i \in {NextMatch(call.text, call.pos)} :
           IF i = 0
           THEN /\ call' = [call EXCEPT
                               !.out = @ \o SubSeq(call.text, call.pos, Len(call.text)),
                               !.pos = Len(call.text) + 1,
                               !.pc = "done"]
                /\ UNCHANGED has_blocks
           ELSE /\ \E j \in {MatchEnd(call.text, i)} :
                   \E repl \in {replace_ref(blocks, SubSeq(call.text, i, j - 1),
                                            SubSeq(call.text, i + 1, j - 2))} :
                       IF repl.some
                       THEN \E resume \in {SubResume(call.text, i, j, repl.val)} :
                                call' = [call EXCEPT
                                            !.out = @ \o SubSeq(call.text, call.pos, i - 1)
                                                      \o repl.val,
                                            !.text = resume.text,
                                            !.pos = resume.pos]
                       ELSE call' = [call EXCEPT !.pc = "raised"]
                /\ has_blocks' = TRUE      \* get_block in resolve_reference
    /\ blocks' = IF NextMatch(call.text, call.pos) = 0 THEN blocks
                 ELSE _ensure_blocks_section(has_blocks, blocks)
    /\ UNCHANGED <<nops, before>>

\* a variant of resolve that answers from the document as it was before
\* the last mutating call, as a cache that is not invalidated would
resolve_stale(ref) ==
    /\ Idle
    /\ call' = [op |-> "resolve_reference", arg |-> ref,
                ret |-> resolve_reference(before, ref)]
    /\ has_blocks' = (has_blocks \/ ResolveEnsuresBlocks(ref))
    /\ blocks' = IF ResolveEnsuresBlocks(ref)
                 THEN _ensure_blocks_section(has_blocks, blocks)
                 ELSE blocks
    /\ UNCHANGED <<nops, before>>

\* Project.resolve_reference called directly
resolve(ref) ==
    /\ Idle
    /\ call' = [op |-> "resolve_reference", arg |-> ref,
                ret |-> resolve_reference(blocks, ref)]
    /\ has_blocks' = (has_blocks \/ ResolveEnsuresBlocks(ref))
    /\ blocks' = IF ResolveEnsuresBlocks(ref)
                 THEN _ensure_blocks_section(has_blocks, blocks)
                 ELSE blocks
    /\ UNCHANGED <<nops, before>>

-----------------------------------------------------------------------------
(* Project.find_references_in and Project.find_references_to *)

\* REFERENCE_PATTERN.findall(text) from position pos on: the captures of
\* the matches, from left to right, a match starting where the last ended
RECURSIVE FindAllFrom(_, _)
FindAllFrom(text, pos) ==
    LET i == NextMatch(text, pos)
        j == MatchEnd(text, i)
    IN IF i = 0 THEN <<>>
       ELSE <<SubSeq(text, i + 1, j - 2)>> \o FindAllFrom(text, j)

findall(text) == FindAllFrom(text, 1)

\* the list references of find_references_in: the captures of the inputs
\* of the stages of the block, in stage order
References(block_data) ==
    Concat([i \in DOMAIN block_data |-> findall(block_data[i].data.input)])

\* a variant of Deduplicate that returns the list as it is
Deduplicate_none(references) == {references}

\* list(set(references)): the distinct elements, each once, in the order
\* the set iterates in, which the language leaves open
Deduplicate(references) ==
    LET elems == {references[i] : i \in DOMAIN references}
    IN {l \in [1..Cardinality(elems) -> elems] :
           \A e \in elems : \E i \in DOMAIN l : l[i] = e}

\* Project.find_references_in: the lists the call can return
find_references_in(bs, category, block) ==
    LET block_data == get_block(bs, category, block)
    IN IF block_data = None THEN {<<>>}
       ELSE Deduplicate(References(block_data.val))

\* a variant of _reference_matches that takes a two-segment reference as
\* category:block only
_reference_matches_strict(ref, target_category, target_block) ==
    LET parts == Split(ref, ":")
    IN IF Len(parts) = 1 THEN parts[1] = target_block
       ELSE IF Len(parts) = 2
       THEN parts[1] = target_category /\ parts[2] = target_block
       ELSE IF Len(parts) = 3
       THEN parts[1] = target_category /\ parts[2] = target_block
       ELSE FALSE

\* a variant of _reference_matches that takes a three-segment reference
\* by its block name alone, as it takes a one-segment reference
_reference_matches_loose(ref, target_category, target_block) ==
    LET parts == Split(ref, ":")
    IN IF Len(parts) = 1 THEN parts[1] = target_block
       ELSE IF Len(parts) = 2
       THEN \/ parts[1] = target_category /\ parts[2] = target_block
            \/ parts[1] = target_block
       ELSE IF Len(parts) = 3
       THEN parts[2] = target_block
       ELSE FALSE

\* Project._reference_matches
_reference_matches(ref, target_category, target_block) ==
    LET parts == Split(ref, ":")
    IN IF Len(parts) = 1 THEN parts[1] = target_block
       ELSE IF Len(parts) = 2
       THEN \/ parts[1] = target_category /\ parts[2] = target_block
            \/ parts[1] = target_block
       ELSE IF Len(parts) = 3
       THEN parts[1] = target_category /\ parts[2] = target_block
       ELSE FALSE

\* a variant of StageAppends without the break: one entry for each
\* matching reference
StageAppends_each(input_text, category, target_name) ==
    LET refs == findall(input_text)
    IN Cardinality({i \in DOMAIN refs :
                       _reference_matches(refs[i], category, target_name)})

\* a variant of StageAppends that lists every stage whose input holds a
\* reference
StageAppends_any(input_text, category, target_name) ==
    IF findall(input_text) # <<>> THEN 1 ELSE 0

\* the loop over the references of one stage in find_references_to: the
\* number of entries the stage appends to results (it breaks at the first
\* reference that matches)
StageAppends(input_text, category, target_name) ==
    LET refs == findall(input_text)
    IN IF \E i \in DOMAIN refs : _reference_matches(refs[i], category, target_name)
       THEN 1 ELSE 0

\* a variant of find_references_to that passes over the target block
\* itself
find_references_to_others(bs, category, block) ==
    LET Appends(t) ==
            StageAppends(bs[t[1]][t[2]][StageIndex(bs[t[1]][t[2]], t[3])].data.input,
                         category, block)
        stages == UNION {UNION {{<<cat, blk_name, stage_name>> :
                                    stage_name \in StageNames(bs[cat][blk_name])} :
                                   blk_name \in DOMAIN bs[cat]} :
                            cat \in DOMAIN bs}
    IN [t \in {u \in stages : /\ <<u[1], u[2]>> # <<category, block>>
                               /\ Appends(u) > 0} |-> Appends(t)]

\* a variant of find_references_to that leaves a block at its first stage
\* that matches: one entry for each block
find_references_to_per_block(bs, category, block) ==
    LET Cites(cat, blk_name, i) ==
            StageAppends(bs[cat][blk_name][i].data.input, category, block) > 0
        firsts == UNION {UNION {{<<cat, blk_name, bs[cat][blk_name][i].name>> :
                                    i \in {k \in DOMAIN bs[cat][blk_name] :
                                              /\ Cites(cat, blk_name, k)
                                              /\ \A m \in 1..(k - 1) :
                                                     ~Cites(cat, blk_name, m)}} :
                                   blk_name \in DOMAIN bs[cat]} :
                            cat \in DOMAIN bs}
    IN [t \in firsts |-> 1]

\* Project.find_references_to: the list results as a bag of triples
\* (category, block, stage), the order of categories and blocks not being
\* modelled
find_references_to(bs, category, block) ==
    LET Appends(t) ==
            StageAppends(bs[t[1]][t[2]][StageIndex(bs[t[1]][t[2]], t[3])].data.input,
                         category, block)
        stages == UNION {UNION {{<<cat, blk_name, stage_name>> :
                                    stage_name \in StageNames(bs[cat][blk_name])} :
                                   blk_name \in DOMAIN bs[cat]} :
                            cat \in DOMAIN bs}
    IN [t \in {u \in stages : Appends(u) > 0} |-> Appends(t)]

\* Project.find_references_in called
find_in(category, block) ==
    /\ Idle
    /\ \E r \in find_references_in(blocks, category, block) :
           call' = [op |-> "find_references_in", category |-> category,
                    block |-> block, ret |-> r]
    /\ has_blocks' = TRUE                                    \* get_block
    /\ blocks' = _ensure_blocks_section(has_blocks, blocks)
    /\ UNCHANGED <<nops, before>>

\* Project.find_references_to called
find_to(category, block) ==
    /\ Idle
    /\ call' = [op |-> "find_references_to", category |-> category,
                block |-> block,
                ret |-> find_references_to(blocks, category, block)]
    /\ has_blocks' = TRUE
    /\ blocks' = _ensure_blocks_section(has_blocks, blocks)
    /\ UNCHANGED <<nops, before>>

-----------------------------------------------------------------------------
(* Inputs of the calls *)

Names == {<<"a">>, <<"b">>}
VersionKeys == {"v1", "v2"}
Contents == {<<"x">>, <<"[", "a", "]">>, <<"[", "b", "]">>}
\* the input_text argument: no reference; one reference; a reference
\* twice around a two-segment one; a three-segment reference, bracketed
\* text that is no reference and a name that no block has
Inputs ==
    { <<>>,
      <<"[", "a", "]">>,
      <<"[", "a", "]", "[", "b", ":", "a", "]", "[", "a", "]">>,
      <<"[", "a", ":", "b", ":", "a", "]", "x", "[", "1", "a", "]", "[", "_", "]">> }

Stage(name, input, selected, output) ==
    [name |-> name, data |-> [input |-> input, selected |-> selected, output |-> output]]

\* the stages argument of create_block and update_block: no stage; one
\* selected stage; a stage whose output cites block a; a stage whose
\* selected key is no version key; an unselected first stage before a
\* selected one; two selected stages whose inputs hold references
StagesPool ==
    { <<>>,
      <<Stage(<<"a">>, <<>>, "v1", [v \in {"v1"} |-> <<"x">>])>>,
      <<Stage(<<"b">>, <<>>, "v1", [v \in {"v1"} |-> <<"[", "a", "]">>])>>,
      <<Stage(<<"a">>, <<>>, "v2", [v \in {"v1"} |-> <<"x">>])>>,
      <<Stage(<<"a">>, <<>>, "", EmptyDict),
        Stage(<<"b">>, <<>>, "v1", [v \in {"v1"} |-> <<"x">>])>>,
      <<Stage(<<"b">>, <<"[", "a", "]", "[", "b", ":", "a", "]", "[", "a", "]">>, "v2",
              [v \in {"v1", "v2"} |-> IF v = "v1" THEN <<"x">> ELSE <<"[", "b", "]">>]),
        Stage(<<"a">>, <<"[", "a", "]">>, "v1", [v \in {"v1"} |-> <<"x">>])>> }

Bracketed(token) == <<"[">> \o token \o <<"]">>

\* tokens of n segments over Names
RECURSIVE TokensOf(_)
TokensOf(n) ==
    IF n = 1 THEN Names
    ELSE {t \o <<":">> \o s : t \in TokensOf(n - 1), s \in Names}

\* the ref argument of resolve_reference: every token of one to three
\* segments in brackets, the empty string, a token without brackets and a
\* token of four segments
RefPool ==
    {Bracketed(t) : t \in TokensOf(1) \cup TokensOf(2) \cup TokensOf(3)}
    \cup {<<>>, <<"a", ":", "b">>, Bracketed(<<"a", ":", "b", ":", "a", ":", "b">>)}

\* the text argument of expand_references: tokens between plain text;
\* adjacent tokens and a token inside brackets; bracketed text that is no
\* token (four segments, a digit first, an empty segment) and a token that
\* names no block; a three-segment token; no bracket at all
TextPool ==
    { <<"x", "[", "a", "]", " ", "[", "b", ":", "a", "]">>,
      <<"[", "a", ":", "b", "]", "[", "[", "b", "]", "]">>,
      <<"[", "a", ":", "b", ":", "a", ":", "b", "]", "[", "1", "a", "]",
        "[", "a", ":", "]", "[", "_", "1", "]">>,
      <<"[", "b", ":", "a", ":", "b", "]", "x">>,
      <<"x", " ", "a", ":", "b", " ", "1">> }

-----------------------------------------------------------------------------
(* Specification *)

\* Project.new
Init ==
    /\ has_blocks = TRUE
    /\ blocks = EmptyDict
    /\ call = Returned("new", None)
    /\ nops = 0
    /\ before = EmptyDict

Next ==
    \/ Load
    \/ \E c \in Names : create_category(c)
    \/ \E c \in Names : delete_category(c)
    \/ \E c \in Names, n \in Names, st \in {None} \cup {Some(b) : b \in StagesPool} :
           create_block(c, n, st)
    \/ \E c \in Names, n \in Names, st \in StagesPool : update_block(c, n, st)
    \/ \E c \in Names, n \in Names : delete_block(c, n)
    \/ \E c \in Names, n \in Names, m \in Names : rename_block(c, n, m)
    \/ \E c \in Names, n \in Names, d \in Names : move_block(c, n, d)
    \/ \E c \in Names, n \in Names, s \in Names, t \in Inputs : add_stage(c, n, s, t)
    \/ \E c \in Names, n \in Names, s \in Names, t \in Inputs :
           update_stage_input(c, n, s, t)
    \/ \E c \in Names, n \in Names, s \in Names : delete_stage(c, n, s)
    \/ \E c \in Names, n \in Names, s \in Names, v \in VersionKeys, x \in Contents :
           add_version(c, n, s, v, x)
    \/ \E c \in Names, n \in Names, s \in Names, v \in VersionKeys :
           select_version(c, n, s, v)
    \/ \E c \in Names, n \in Names, s \in Names, v \in VersionKeys :
           delete_version(c, n, s, v)
    \/ \E r \in RefPool : resolve(r)
    \/ \E t \in TextPool : expand_references(t)
    \/ expand_step
    \/ \E c \in Names, n \in Names : find_in(c, n)
    \/ \E c \in Names, n \in Names : find_to(c, n)

Spec == Init /\ [][Next]_vars

-----------------------------------------------------------------------------
(* What the properties speak of *)

Token1(n) == Bracketed(n)
Token2(a, b) == Bracketed(a \o <<":">> \o b)
Token3(c, b, s) == Bracketed(c \o <<":">> \o b \o <<":">> \o s)

\* the number of colon-separated segments of a reference
Segments(ref) == Cardinality({i \in DOMAIN ref : ref[i] = ":"}) + 1

Resolved == call.op = "resolve_reference"

\* the categories that hold a block named n
Holders(n) == {c \in DOMAIN blocks : n \in DOMAIN blocks[c]}

HasBlock(c, n) == c \in DOMAIN blocks /\ n \in DOMAIN blocks[c]

\* the content of the selected version of a stage, Absent (None) without one
SelectedText(data) ==
    IF data.selected # "" /\ data.selected \in DOMAIN data.output
    THEN Some(data.output[data.selected])
    ELSE None

FirstStageText(block) ==
    IF Len(block) = 0 THEN None ELSE SelectedText(block[1].data)

NamedStageText(block, s) ==
    IF \E i \in DOMAIN block : block[i].name = s
    THEN SelectedText(block[CHOOSE i \in DOMAIN block : block[i].name = s].data)
    ELSE None

\* the input text of the stage s of a block
NamedStageInput(block, s) ==
    block[CHOOSE i \in DOMAIN block : block[i].name = s].data.input

\* the selected contents of all stages of the document
AllSelectedTexts ==
    UNION {UNION {{SelectedText(blocks[c][n][i].data) : i \in DOMAIN blocks[c][n]} :
                     n \in DOMAIN blocks[c]} :
              c \in DOMAIN blocks}

-----------------------------------------------------------------------------
(* Properties of resolve_reference *)

\* C1: resolve_reference never raises: it returns the exact content of the
\* selected version of some stage of the document, or None; a reference
\* with a number of segments other than 1, 2 or 3 yields None.
C1_ResolveTotal ==
    Resolved =>
        /\ call.ret = None \/ (call.ret # None /\ call.ret \in AllSelectedTexts)
        /\ Segments(call.arg) \notin 1..3 => call.ret = None

\* a four-segment reference was resolved to None in a document that has
\* selected content
C1_Witness ==
    /\ Resolved
    /\ Segments(call.arg) = 4
    /\ call.ret = None
    /\ \E t \in AllSelectedTexts : t # None

\* C2: when two or more categories hold a block named n, [n] resolves to
\* None, while [cat:n] finds the block of each such category and returns
\* its default output.
C2_Ambiguity ==
    Resolved =>
        \A n \in Names :
            Cardinality(Holders(n)) >= 2 =>
                /\ call.arg = Token1(n) => call.ret = None
                /\ \A c \in Holders(n) :
                       call.arg = Token2(c, n) =>
                           call.ret = FirstStageText(blocks[c][n])

\* [n] was resolved to None although both categories hold a block n with
\* a default output
C2_Witness ==
    /\ Resolved
    /\ \E n \in Names :
           /\ call.arg = Token1(n)
           /\ Cardinality(Holders(n)) >= 2
           /\ \A c \in Holders(n) : FirstStageText(blocks[c][n]) # None
    /\ call.ret = None

\* the block of the only category that holds a block named n
TheBlock(n) == blocks[CHOOSE c \in Holders(n) : TRUE][n]

\* C3: [a:b] is the default output of block b of category a when that block
\* exists; only otherwise stage b of the uniquely named block a; else None.
C3_Precedence ==
    Resolved =>
        \A a \in Names, b \in Names :
            call.arg = Token2(a, b) =>
                call.ret = IF HasBlock(a, b) THEN FirstStageText(blocks[a][b])
                           ELSE IF Cardinality(Holders(a)) = 1
                           THEN NamedStageText(TheBlock(a), b)
                           ELSE None

\* [a:b] was resolved where both readings apply and differ
C3_Witness ==
    /\ Resolved
    /\ \E a \in Names, b \in Names :
           /\ call.arg = Token2(a, b)
           /\ HasBlock(a, b)
           /\ Cardinality(Holders(a)) = 1
           /\ NamedStageText(TheBlock(a), b) # None
           /\ NamedStageText(TheBlock(a), b) # FirstStageText(blocks[a][b])
           /\ call.ret = FirstStageText(blocks[a][b])

\* C4 as claimed: for every uniquely named block b and every stage s of it
\* with a selected version, [b:s] is the selected content of that stage.
C4_ExplicitStageAlways ==
    Resolved =>
        \A b \in Names, s \in Names :
            ( /\ call.arg = Token2(b, s)
              /\ Cardinality(Holders(b)) = 1
              /\ NamedStageText(TheBlock(b), s) # None )
            => call.ret = NamedStageText(TheBlock(b), s)

\* C4: the same, when category b holds no block named s.
C4_ExplicitStage ==
    Resolved =>
        \A b \in Names, s \in Names :
            ( /\ call.arg = Token2(b, s)
              /\ Cardinality(Holders(b)) = 1
              /\ NamedStageText(TheBlock(b), s) # None
              /\ ~HasBlock(b, s) )
            => call.ret = NamedStageText(TheBlock(b), s)

\* [b:s] was resolved to the content of a later stage s that differs from
\* the content of the first stage
C4_Witness ==
    /\ Resolved
    /\ \E b \in Names, s \in Names :
           /\ call.arg = Token2(b, s)
           /\ Cardinality(Holders(b)) = 1
           /\ ~HasBlock(b, s)
           /\ NamedStageText(TheBlock(b), s) # None
           /\ TheBlock(b)[1].name # s
           /\ NamedStageText(TheBlock(b), s) # FirstStageText(TheBlock(b))
           /\ call.ret = NamedStageText(TheBlock(b), s)

\* C5: [name], for a uniquely named block, and [category:name], for an
\* existing block, are the selected output of the first stage in insertion
\* order, and None when the block has no stage or the first stage has no
\* selected version.
C5_DefaultStage ==
    Resolved =>
        \A c \in Names, n \in Names :
            /\ (call.arg = Token1(n) /\ Holders(n) = {c}) =>
                   call.ret = FirstStageText(blocks[c][n])
            /\ (call.arg = Token2(c, n) /\ HasBlock(c, n)) =>
                   call.ret = FirstStageText(blocks[c][n])

\* a default reference was resolved to None for a block whose first stage
\* has no selection and whose second stage has one
C5_Witness ==
    /\ Resolved
    /\ \E c \in Names, n \in Names :
           /\ call.arg \in {Token1(n), Token2(c, n)}
           /\ Holders(n) = {c}
           /\ Len(blocks[c][n]) = 2
           /\ SelectedText(blocks[c][n][1].data) = None
           /\ SelectedText(blocks[c][n][2].data) # None
    /\ call.ret = None

\* C6: [c:b:s] is get_selected_output(c, b, s): the content of the selected
\* version, and None when the block or the stage is missing, the selected
\* key is empty or the selected key is no version key; it is never raised.
C6_FullForm ==
    Resolved =>
        \A c \in Names, b \in Names, s \in Names :
            call.arg = Token3(c, b, s) =>
                /\ call.ret = get_selected_output(blocks, c, b, s)
                /\ call.ret = IF HasBlock(c, b) THEN NamedStageText(blocks[c][b], s)
                              ELSE None

\* the full form was resolved to None on a stage whose selected key is no
\* version key
C6_Witness ==
    /\ Resolved
    /\ \E c \in Names, b \in Names, s \in Names :
           /\ call.arg = Token3(c, b, s)
           /\ HasBlock(c, b)
           /\ \E i \in DOMAIN blocks[c][b] :
                  /\ blocks[c][b][i].name = s
                  /\ blocks[c][b][i].data.selected # ""
                  /\ blocks[c][b][i].data.selected \notin DOMAIN blocks[c][b][i].data.output
    /\ call.ret = None

\* C7: for a block b of category c with a unique name and first stage s,
\* [b], [c:b] and [c:b:s] resolve to the same result, the selected content
\* of stage s.
C7_FormsAgree ==
    Resolved =>
        \A c \in Names, b \in Names :
            ( /\ call.arg = Token1(b)
              /\ Holders(b) = {c}
              /\ Len(blocks[c][b]) > 0 )
            => /\ call.ret = resolve_reference(blocks, Token2(c, b))
               /\ call.ret = resolve_reference(blocks, Token3(c, b, blocks[c][b][1].name))
               /\ call.ret = SelectedText(blocks[c][b][1].data)

\* [b] was resolved to content where the block has a later stage with
\* another content
C7_Witness ==
    /\ Resolved
    /\ \E c \in Names, b \in Names :
           /\ call.arg = Token1(b)
           /\ Holders(b) = {c}
           /\ Len(blocks[c][b]) = 2
           /\ SelectedText(blocks[c][b][2].data) # SelectedText(blocks[c][b][1].data)
           /\ call.ret = SelectedText(blocks[c][b][1].data)
    /\ call.ret # None

-----------------------------------------------------------------------------
(* Properties of expand_references *)

Expanding == call.op = "expand_references"

Expanded == IF call.op = "expand_references" THEN call.pc = "done" ELSE FALSE

IsIdentifier(w) ==
    /\ Len(w) >= 1
    /\ w[1] \in IdentStart
    /\ \A i \in 2..Len(w) : w[i] \in IdentCont

\* a reference token in brackets: one to three identifiers joined by colons
IsTokenText(sub) ==
    /\ Len(sub) >= 3
    /\ sub[1] = "["
    /\ sub[Len(sub)] = "]"
    /\ LET inner == SubSeq(sub, 2, Len(sub) - 1)
           cuts == {0, Len(inner) + 1} \cup {i \in DOMAIN inner : inner[i] = ":"}
       IN /\ Cardinality(cuts) <= 4
          /\ \A p \in cuts, q \in cuts :
                 (p < q /\ \A r \in cuts : ~(p < r /\ r < q)) =>
                     IsIdentifier(SubSeq(inner, p + 1, q - 1))

\* the token occurrences <<first, last>> of a text: no two overlap, since a
\* token holds a bracket only at its ends
Occurrences(text) ==
    {o \in {i \in DOMAIN text : text[i] = "["} \X {j \in DOMAIN text : text[j] = "]"} :
        o[1] < o[2] /\ IsTokenText(SubSeq(text, o[1], o[2]))}

\* the resolution of the occurrence o of text
Resolution(text, o) == resolve_reference(blocks, SubSeq(text, o[1] + 1, o[2] - 1))

ResolvedOccurrences(text) ==
    {o \in Occurrences(text) : Resolution(text, o) # None}

\* what position p of the text contributes to its expansion
Piece(text, p) ==
    LET res == ResolvedOccurrences(text)
    IN IF \E o \in res : o[1] = p
       THEN Resolution(text, CHOOSE o \in res : o[1] = p).val
       ELSE IF \E o \in res : o[1] < p /\ p <= o[2] THEN <<>>
       ELSE <<text[p]>>

\* the expansion of the first n positions of the text
ExpansionUpTo(text, n) == Concat([p \in 1..n |-> Piece(text, p)])

\* C8: expand_references replaces each token whose resolution is not None
\* by the resolved content and leaves every other token and all other text
\* as they are, in order; a text with no resolvable token is returned
\* unchanged.
C8_ExpandReplaces ==
    Expanded =>
        /\ call.out = ExpansionUpTo(call.arg, Len(call.arg))
        /\ ResolvedOccurrences(call.arg) = {} => call.out = call.arg

\* a text with a resolved and an unresolved token was expanded
C8_Witness ==
    /\ Expanded
    /\ ResolvedOccurrences(call.arg) # {}
    /\ Occurrences(call.arg) \ ResolvedOccurrences(call.arg) # {}
    /\ call.out # call.arg

\* C9: expansion is one pass over the given text: the text that is scanned
\* is never rewritten, the resolved content of a token stands in the result
\* as it is, tokens included, and a text without tokens is returned as it is.
C9_OneLevel ==
    Expanding =>
        /\ call.text = call.arg
        /\ Expanded =>
               /\ \A o \in ResolvedOccurrences(call.arg) :
                      LET at == Len(ExpansionUpTo(call.arg, o[1] - 1))
                          content == Resolution(call.arg, o).val
                      IN SubSeq(call.out, at + 1, at + Len(content)) = content
               /\ Occurrences(call.arg) = {} => call.out = call.arg

\* a token was replaced by content that holds a token which resolves: the
\* result still holds that token, so expanding the result changes it
C9_Witness ==
    /\ Expanded
    /\ \E o \in ResolvedOccurrences(call.arg) :
           LET at == Len(ExpansionUpTo(call.arg, o[1] - 1))
               content == Resolution(call.arg, o).val
           IN /\ ResolvedOccurrences(content) # {}
              /\ SubSeq(call.out, at + 1, at + Len(content)) = content
    /\ ResolvedOccurrences(call.out) # {}

\* expand_references is scanning its text
Scanning == IF call.op = "expand_references" THEN call.pc = "scan" ELSE FALSE

\* C10: every call of expand_references returns a text, whatever the
\* document, cyclic references included: a step of the scan never raises,
\* and it either returns the result or moves strictly forward in the text
\* it was given, which bounds the number of steps by the length of the text.
C10_ExpandReturns ==
    [][Scanning =>
          /\ call'.op = "expand_references"
          /\ call'.arg = call.arg
          /\ call'.text = call.text
          /\ \/ call'.pc = "done"
             \/ /\ call'.pc = "scan"
                /\ call.pos < call'.pos
                /\ call'.pos <= Len(call.text) + 1]_vars

\* a text was expanded whose token resolves to content that cites the token
\* again, directly or through a second block
C10_Witness ==
    /\ Expanded
    /\ \E o \in ResolvedOccurrences(call.arg) :
           LET content == Resolution(call.arg, o).val
           IN /\ IsTokenText(content)
              /\ resolve_reference(blocks, content) # None
              /\ resolve_reference(blocks, content).val
                     \in {content, SubSeq(call.arg, o[1], o[2])}

-----------------------------------------------------------------------------
(* Properties of find_references_in and find_references_to *)

FoundIn == call.op = "find_references_in"

FoundTo == call.op = "find_references_to"

\* the reference tokens, without brackets, that occur in a text
TokensIn(text) ==
    {SubSeq(text, o[1] + 1, o[2] - 1) : o \in Occurrences(text)}

\* the tokens that occur in the inputs of the stages of a block
InputTokens(block) ==
    UNION {TokensIn(block[k].data.input) : k \in DOMAIN block}

\* the tokens that occur in the versions of the stages of a block
OutputTokens(block) ==
    UNION {UNION {TokensIn(block[k].data.output[v]) :
                     v \in DOMAIN block[k].data.output} :
              k \in DOMAIN block}

\* C11: find_references_in(category, block) returns the distinct reference
\* tokens, without brackets, of the inputs of the stages of the block: each
\* once, resolvable or not, nothing from the outputs, and nothing for a
\* missing block.
C11_FindIn ==
    FoundIn =>
        /\ \A i \in DOMAIN call.ret, j \in DOMAIN call.ret :
               call.ret[i] = call.ret[j] => i = j
        /\ {call.ret[i] : i \in DOMAIN call.ret} =
               IF HasBlock(call.category, call.block)
               THEN InputTokens(blocks[call.category][call.block])
               ELSE {}

\* the references of a block were listed whose inputs hold a token twice,
\* a token that resolves and one that does not, and whose outputs hold a
\* token that the inputs do not
C11_Witness ==
    /\ FoundIn
    /\ HasBlock(call.category, call.block)
    /\ LET block == blocks[call.category][call.block]
       IN /\ Len(References(block)) > Len(call.ret)
          /\ \E i \in DOMAIN call.ret :
                 resolve_reference(blocks, call.ret[i]) = None
          /\ \E i \in DOMAIN call.ret :
                 resolve_reference(blocks, call.ret[i]) # None
          /\ OutputTokens(block) \ InputTokens(block) # {}

\* the stages of the document as triples (category, block, stage)
AllStages ==
    UNION {UNION {{<<c, b, blocks[c][b][k].name>> : k \in DOMAIN blocks[c][b]} :
                     b \in DOMAIN blocks[c]} :
              c \in DOMAIN blocks}

InputOf(t) == NamedStageInput(blocks[t[1]][t[2]], t[3])

\* a token matches the target: the bare name tb; a two-segment token that
\* is tc:tb or starts with tb; a three-segment token that starts with tc:tb
MatchesTarget(tok, tc, tb) ==
    \/ tok = tb
    \/ /\ Segments(tok) = 2
       /\ \/ tok = tc \o <<":">> \o tb
          \/ SubSeq(tok, 1, Len(tb) + 1) = tb \o <<":">>
    \/ /\ Segments(tok) = 3
       /\ SubSeq(tok, 1, Len(tc) + Len(tb) + 2) = tc \o <<":">> \o tb \o <<":">>

\* the stages whose input holds a token that matches the target
CitingStages(tc, tb) ==
    {t \in AllStages : \E tok \in TokensIn(InputOf(t)) : MatchesTarget(tok, tc, tb)}

\* C12: find_references_to(tc, tb) holds the triple (c, b, s) if and only
\* if the input of stage s of block b of category c holds a token that
\* matches the target: a one-segment token equal to tb, a two-segment
\* token (x, y) with x = tc and y = tb or with x = tb, a three-segment
\* token (x, y, z) with x = tc and y = tb.
C12_FindTo ==
    FoundTo => DOMAIN call.ret = CitingStages(call.category, call.block)

\* the result holds a stage whose only matching token is a two-segment
\* token that starts with the target's block name, and not a stage of the
\* same block whose input holds a token that does not match
C12_Witness ==
    /\ FoundTo
    /\ \E t \in DOMAIN call.ret :
           /\ \A tok \in TokensIn(InputOf(t)) :
                  MatchesTarget(tok, call.category, call.block) =>
                      /\ Segments(tok) = 2
                      /\ tok # call.category \o <<":">> \o call.block
           /\ \E u \in AllStages \ DOMAIN call.ret :
                  /\ u[1] = t[1] /\ u[2] = t[2]
                  /\ TokensIn(InputOf(u)) # {}

\* how many times the token occurrences of a text match the target
MatchingOccurrences(text, tc, tb) ==
    {o \in Occurrences(text) :
        MatchesTarget(SubSeq(text, o[1] + 1, o[2] - 1), tc, tb)}

\* C13: a stage contributes at most one entry to the result of
\* find_references_to, however many tokens of its input match the target:
\* no triple (category, block, stage) occurs twice in the result.
C13_OncePerStage ==
    FoundTo => \A t \in DOMAIN call.ret : CopiesIn(t, call.ret) = 1

\* the result holds a stage whose input has several matching tokens
C13_Witness ==
    /\ FoundTo
    /\ \E t \in DOMAIN call.ret :
           Cardinality(MatchingOccurrences(InputOf(t), call.category, call.block)) >= 2

\* the entries of a result of find_references_to that belong to block b of
\* category c
BlockEntries(results, c, b) ==
    [t \in {u \in DOMAIN results : u[1] = c /\ u[2] = b} |-> results[t]]

\* C14 as stated: each contributing block contributes exactly one triple:
\* no two triples of the result share the same category and block.
C14_OncePerBlock ==
    FoundTo =>
        \A c \in DOMAIN blocks : \A b \in DOMAIN blocks[c] :
            BagCardinality(BlockEntries(call.ret, c, b)) <= 1

\* C14, amended: a block contributes one triple for each of its stages
\* whose input holds a matching token, whatever the number of matching
\* tokens: exactly one triple when one stage of the block cites the target,
\* several when several stages do.
C14_OncePerCitingStage ==
    FoundTo =>
        \A c \in DOMAIN blocks : \A b \in DOMAIN blocks[c] :
            BagCardinality(BlockEntries(call.ret, c, b)) =
                Cardinality({t \in CitingStages(call.category, call.block) :
                                t[1] = c /\ t[2] = b})

\* the result holds two stages of one block, one of them with several
\* matching tokens
C14_Witness ==
    /\ FoundTo
    /\ \E t \in DOMAIN call.ret, u \in DOMAIN call.ret :
           /\ t # u /\ t[1] = u[1] /\ t[2] = u[2]
           /\ Cardinality(MatchingOccurrences(InputOf(t), call.category,
                                              call.block)) >= 2

-----------------------------------------------------------------------------
(* The reference operations and the document *)

ReferenceOps ==
    {"resolve_reference", "expand_references",
     "find_references_in", "find_references_to"}

\* C15: the reference operations are read-only: on a document that has its
\* blocks section, a step of resolve_reference, expand_references,
\* find_references_in or find_references_to leaves the categories, blocks,
\* stage order, inputs, selected keys and versions as they are.
C15_ReadOnly ==
    [][(call'.op \in ReferenceOps /\ has_blocks) =>
           (blocks' = blocks /\ has_blocks')]_vars

\* a reference operation has returned content of a document with stages
C15_Witness ==
    /\ call.op \in ReferenceOps
    /\ has_blocks
    /\ AllStages # {}
    /\ \/ Resolved /\ call.ret # None
       \/ Expanded /\ call.out # call.arg
       \/ FoundIn /\ call.ret # <<>>
       \/ FoundTo /\ DOMAIN call.ret # {}

-----------------------------------------------------------------------------
(* Properties of the document operations *)

\* C16: in every state reached from Project.new through the mutating
\* operations, the selected key of every stage is empty or a key of the
\* versions of that stage.
C16_SelectionInvariant ==
    \A c \in DOMAIN blocks : \A b \in DOMAIN blocks[c] :
        \A k \in DOMAIN blocks[c][b] :
            LET data == blocks[c][b][k].data
            IN data.selected = "" \/ data.selected \in DOMAIN data.output

HasStage(c, b, s) == HasBlock(c, b) /\ s \in StageNames(blocks[c][b])

\* the data of the stage s of block b of category c before and after a step
StageBefore(c, b, s) ==
    blocks[c][b][CHOOSE i \in DOMAIN blocks[c][b] : blocks[c][b][i].name = s].data

StageAfter(c, b, s) ==
    blocks'[c][b][CHOOSE i \in DOMAIN blocks'[c][b] : blocks'[c][b][i].name = s].data

\* a step leaves everything but the data of the stage s of block b of
\* category c as it is: categories, blocks, the stages of the block and
\* their order, and the other stages
OnlyStageChanges(c, b, s) ==
    /\ DOMAIN blocks' = DOMAIN blocks
    /\ \A c2 \in DOMAIN blocks :
           /\ DOMAIN blocks'[c2] = DOMAIN blocks[c2]
           /\ \A b2 \in DOMAIN blocks[c2] :
                  <<c2, b2>> # <<c, b>> => blocks'[c2][b2] = blocks[c2][b2]
    /\ Len(blocks'[c][b]) = Len(blocks[c][b])
    /\ \A k \in DOMAIN blocks[c][b] :
           /\ blocks'[c][b][k].name = blocks[c][b][k].name
           /\ blocks[c][b][k].name # s => blocks'[c][b][k] = blocks[c][b][k]

\* C17: delete_version(c, b, s, v) removes version v of the stage and
\* returns True when the stage has it, and returns False without a change
\* otherwise; the selection becomes empty if v was selected (the selected
\* output is then None) and stays, as the other versions do, if it was not.
C17_DeleteVersion ==
    [][\A c \in Names, b \in Names, s \in Names, v \in VersionKeys :
          delete_version(c, b, s, v) =>
              IF HasStage(c, b, s) /\ v \in DOMAIN StageBefore(c, b, s).output
              THEN /\ call'.ret = Some(TRUE)
                   /\ OnlyStageChanges(c, b, s)
                   /\ StageAfter(c, b, s).input = StageBefore(c, b, s).input
                   /\ DOMAIN StageAfter(c, b, s).output =
                          DOMAIN StageBefore(c, b, s).output \ {v}
                   /\ \A w \in DOMAIN StageAfter(c, b, s).output :
                          StageAfter(c, b, s).output[w] = StageBefore(c, b, s).output[w]
                   /\ IF StageBefore(c, b, s).selected = v
                      THEN /\ StageAfter(c, b, s).selected = ""
                           /\ get_selected_output(blocks', c, b, s) = None
                      ELSE StageAfter(c, b, s).selected = StageBefore(c, b, s).selected
              ELSE /\ call'.ret = Some(FALSE)
                   /\ blocks' = blocks]_vars

\* the selected version of a stage that has another version was deleted
C17_Witness ==
    /\ call = Returned("delete_version", Some(TRUE))
    /\ \E t \in AllStages :
           LET block == blocks[t[1]][t[2]]
               data == block[CHOOSE i \in DOMAIN block : block[i].name = t[3]].data
           IN data.selected = "" /\ DOMAIN data.output # {}

\* C18: select_version(c, b, s, v) raises StageNotFoundError when the
\* stage does not exist and VersionNotFoundError when v is no version key
\* of the stage, the document staying as it is; on success only the
\* selected key of that stage changes, to v.
C18_SelectVersion ==
    [][\A c \in Names, b \in Names, s \in Names, v \in VersionKeys :
          select_version(c, b, s, v) =>
              IF ~HasStage(c, b, s)
              THEN /\ call'.ret = Raised("StageNotFoundError")
                   /\ blocks' = blocks
              ELSE IF v \notin DOMAIN StageBefore(c, b, s).output
              THEN /\ call'.ret = Raised("VersionNotFoundError")
                   /\ blocks' = blocks
              ELSE /\ call'.ret = None
                   /\ OnlyStageChanges(c, b, s)
                   /\ StageAfter(c, b, s) =
                          [input |-> StageBefore(c, b, s).input,
                           selected |-> v,
                           output |-> StageBefore(c, b, s).output]]_vars

\* a version that a stage with a selection does not have was asked for
C18_Witness ==
    /\ call = Returned("select_version", Raised("VersionNotFoundError"))
    /\ \E t \in AllStages :
           LET block == blocks[t[1]][t[2]]
               data == block[CHOOSE i \in DOMAIN block : block[i].name = t[3]].data
           IN /\ data.selected \in DOMAIN data.output
              /\ VersionKeys \ DOMAIN data.output # {}

\* the blocks of the document as pairs (category, block)
AllBlocks ==
    UNION {{<<c, b>> : b \in DOMAIN blocks[c]} : c \in DOMAIN blocks}

AllBlocksAfter ==
    UNION {{<<c, b>> : b \in DOMAIN blocks'[c]} : c \in DOMAIN blocks'}

\* C19: block names are unique within a category and may repeat across
\* categories: create_block(c, n) raises BlockExistsError when category c
\* has a block n, the document staying as it is, and otherwise succeeds,
\* creating category c if needed, whether or not another category has a
\* block n.
C19_CreateBlock ==
    [][\A c \in Names, n \in Names, st \in {None} \cup {Some(b) : b \in StagesPool} :
          create_block(c, n, st) =>
              IF HasBlock(c, n)
              THEN /\ call'.ret = Raised("BlockExistsError")
                   /\ blocks' = blocks
              ELSE /\ call'.ret = Some(IF st = None THEN <<>> ELSE st.val)
                   /\ DOMAIN blocks' = DOMAIN blocks \cup {c}
                   /\ AllBlocksAfter = AllBlocks \cup {<<c, n>>}
                   /\ blocks'[c][n] = (IF st = None THEN <<>> ELSE st.val)
                   /\ \A t \in AllBlocks : blocks'[t[1]][t[2]] = blocks[t[1]][t[2]]]_vars

\* a block was created under a name that another category has too
C19_Witness ==
    /\ call.op = "create_block"
    /\ call.ret.some
    /\ \E n \in Names : Cardinality(Holders(n)) = 2

-----------------------------------------------------------------------------
(* Results as functions of the current document *)

\* a reference without its brackets
Unbracketed(ref) ==
    IF Len(ref) >= 2 /\ ref[1] = "[" /\ ref[Len(ref)] = "]"
    THEN SubSeq(ref, 2, Len(ref) - 1)
    ELSE ref

\* the k-th colon-separated segment of a token
Segment(tok, k) ==
    LET colons == {i \in DOMAIN tok : tok[i] = ":"}
        Cut(m) == IF m = 0 THEN 0
                  ELSE IF m > Cardinality(colons) THEN Len(tok) + 1
                  ELSE CHOOSE i \in colons :
                           Cardinality({j \in colons : j < i}) = m - 1
    IN SubSeq(tok, Cut(k - 1) + 1, Cut(k) - 1)

\* what a reference denotes in the document doc: the default output of the
\* uniquely named block; of the block of the category, else the named
\* stage of the uniquely named block; the named stage of the block of the
\* category; nothing otherwise
Denotation(doc, ref) ==
    LET tok == Unbracketed(ref)
        x == Segment(tok, 1)
        y == Segment(tok, 2)
        z == Segment(tok, 3)
        Has(c, n) == c \in DOMAIN doc /\ n \in DOMAIN doc[c]
        Holding(n) == {c \in DOMAIN doc : n \in DOMAIN doc[c]}
        Unique(n) == doc[CHOOSE c \in Holding(n) : TRUE][n]
    IN IF Segments(tok) = 1
       THEN IF Cardinality(Holding(x)) = 1 THEN FirstStageText(Unique(x)) ELSE None
       ELSE IF Segments(tok) = 2
       THEN IF Has(x, y) THEN FirstStageText(doc[x][y])
            ELSE IF Cardinality(Holding(x)) = 1 THEN NamedStageText(Unique(x), y)
            ELSE None
       ELSE IF Segments(tok) = 3
       THEN IF Has(x, y) THEN NamedStageText(doc[x][y], z) ELSE None
       ELSE None

\* what position p of a text contributes to its expansion in the document
\* doc: the denotation of the token that starts there, nothing inside a
\* token that denotes something, the character otherwise
Contribution(doc, text, p) ==
    LET Denoted(o) == Denotation(doc, SubSeq(text, o[1], o[2]))
        denoting == {o \in Occurrences(text) : Denoted(o) # None}
    IN IF \E o \in denoting : o[1] = p
       THEN Denoted(CHOOSE o \in denoting : o[1] = p).val
       ELSE IF \E o \in denoting : o[1] < p /\ p <= o[2] THEN <<>>
       ELSE <<text[p]>>

ExpansionIn(doc, text) == Concat([p \in 1..Len(text) |-> Contribution(doc, text, p)])

\* C22: the results of resolve_reference, expand_references,
\* find_references_in and find_references_to are functions of the current
\* document and the arguments: what the reference denotes now, the
\* expansion of the text now, the tokens of the block's inputs now and the
\* stages that cite the target now, whatever the document was before the
\* last mutating call.
C22_Fresh ==
    /\ Resolved => call.ret = Denotation(blocks, call.arg)
    /\ Expanded => call.out = ExpansionIn(blocks, call.arg)
    /\ FoundIn =>
           {call.ret[i] : i \in DOMAIN call.ret} =
               IF HasBlock(call.category, call.block)
               THEN InputTokens(blocks[call.category][call.block])
               ELSE {}
    /\ FoundTo => DOMAIN call.ret = CitingStages(call.category, call.block)

\* a reference was resolved to content where it denoted other content, or
\* to nothing where it denoted content, before the last mutating call
C22_Witness ==
    /\ Resolved
    /\ call.ret = Denotation(blocks, call.arg)
    /\ Denotation(before, call.arg) # None
    /\ Denotation(before, call.arg) # call.ret
    /\ before # EmptyDict

\* the block (category, name) through which a token is resolved in the
\* document, as a set: empty when the token finds no block
Via(tok) ==
    LET x == Segment(tok, 1)
        y == Segment(tok, 2)
    IN IF Segments(tok) = 1
       THEN {<<c, x>> : c \in {d \in Holders(x) : Cardinality(Holders(x)) = 1}}
       ELSE IF Segments(tok) = 2
       THEN IF HasBlock(x, y) THEN {<<x, y>>}
            ELSE {<<c, x>> : c \in {d \in Holders(x) : Cardinality(Holders(x)) = 1}}
       ELSE IF Segments(tok) = 3 /\ HasBlock(x, y) THEN {<<x, y>>}
       ELSE {}

\* C23: the index is complete with respect to resolution: when a token of
\* the input of stage s of block b of category c is resolved through block
\* tb of category tc (by bare name, as category:block, by the block:stage
\* fallback or in full form), find_references_to(tc, tb) holds (c, b, s).
\* Every token that resolve_reference resolves goes through a block, and
\* the triple is listed even when the block found yields no content.
C23_IndexComplete ==
    FoundTo =>
        \A t \in AllStages : \A tok \in TokensIn(InputOf(t)) :
            /\ resolve_reference(blocks, tok) # None => Via(tok) # {}
            /\ <<call.category, call.block>> \in Via(tok) => t \in DOMAIN call.ret

\* the result holds a stage with a two-segment token that resolves to
\* content through the block:stage fallback on the target
C23_Witness ==
    /\ FoundTo
    /\ \E t \in DOMAIN call.ret : \E tok \in TokensIn(InputOf(t)) :
           /\ Segments(tok) = 2
           /\ ~HasBlock(Segment(tok, 1), Segment(tok, 2))
           /\ Via(tok) = {<<call.category, call.block>>}
           /\ resolve_reference(blocks, tok) # None

\* C24: outward and inward references agree: find_references_to(tc, tb)
\* holds a triple (c, b, s) only if find_references_in(c, b) holds a token
\* that matches (tc, tb), and every block whose find_references_in holds
\* such a token has a stage in find_references_to(tc, tb), whether or not
\* the target exists and also when the block is the target.
C24_Duality ==
    FoundTo =>
        /\ \A t \in DOMAIN call.ret :
               /\ HasBlock(t[1], t[2])
               /\ \A l \in find_references_in(blocks, t[1], t[2]) :
                      \E i \in DOMAIN l : MatchesTarget(l[i], call.category, call.block)
        /\ \A u \in AllBlocks :
               (\E l \in find_references_in(blocks, u[1], u[2]) :
                    \E i \in DOMAIN l : MatchesTarget(l[i], call.category, call.block))
               => \E t \in DOMAIN call.ret : t[1] = u[1] /\ t[2] = u[2]

\* the target block cites itself and is in the result
C24_Witness ==
    /\ FoundTo
    /\ HasBlock(call.category, call.block)
    /\ \E t \in DOMAIN call.ret : t[1] = call.category /\ t[2] = call.block
    /\ \E l \in find_references_in(blocks, call.category, call.block) : Len(l) >= 2

\* the input texts of the stages of a block, in stage order
InputsOf(block) == [k \in DOMAIN block |-> block[k].data.input]

\* C25: rename_block and move_block do not rewrite references: the input
\* text of every stage of every block stays as it is; after a successful
\* rename_block(c, old, new), [c:old:s] resolves to nothing for every
\* stage s and [c:new:s] resolves to what [c:old:s] resolved to before.
C25_NoRewrite ==
    [][/\ \A c \in Names, old \in Names, new \in Names :
             rename_block(c, old, new) =>
                 IF HasBlock(c, old) /\ ~HasBlock(c, new)
                 THEN /\ InputsOf(blocks'[c][new]) = InputsOf(blocks[c][old])
                      /\ \A t \in AllBlocks \ {<<c, old>>} :
                             InputsOf(blocks'[t[1]][t[2]]) = InputsOf(blocks[t[1]][t[2]])
                      /\ \A s \in Names :
                             /\ resolve_reference(blocks', Token3(c, old, s)) = None
                             /\ resolve_reference(blocks', Token3(c, new, s)) =
                                    resolve_reference(blocks, Token3(c, old, s))
                 ELSE \A t \in AllBlocks :
                          InputsOf(blocks'[t[1]][t[2]]) = InputsOf(blocks[t[1]][t[2]])
       /\ \A oc \in Names, n \in Names, nc \in Names :
             move_block(oc, n, nc) =>
                 IF HasBlock(oc, n) /\ ~HasBlock(nc, n)
                 THEN /\ InputsOf(blocks'[nc][n]) = InputsOf(blocks[oc][n])
                      /\ \A t \in AllBlocks \ {<<oc, n>>} :
                             InputsOf(blocks'[t[1]][t[2]]) = InputsOf(blocks[t[1]][t[2]])
                 ELSE \A t \in AllBlocks :
                          InputsOf(blocks'[t[1]][t[2]]) = InputsOf(blocks[t[1]][t[2]])]_vars

\* a block with selected content was renamed whose input cites a name that
\* no block has any more
C25_Witness ==
    /\ call = Returned("rename_block", None)
    /\ \E t \in AllStages :
           /\ \E tok \in TokensIn(InputOf(t)) : tok \in Names /\ Holders(tok) = {}
           /\ \E s \in Names : resolve_reference(blocks, Token3(t[1], t[2], s)) # None

\* C26: add_stage(c, b, s, text) on a block that has a stage s does not
\* fail: the stage is replaced by a fresh one with the given input, an
\* empty selection and no versions, at the position it had; a stage of a
\* new name is appended last, so that the first stage of a block that had
\* stages stays the first.
C26_AddStage ==
    [][\A c \in Names, b \in Names, s \in Names, text \in Inputs :
          add_stage(c, b, s, text) =>
              LET fresh == [input |-> text, selected |-> "", output |-> <<>>]
              IN IF ~HasBlock(c, b)
                 THEN /\ call'.ret = Raised("BlockNotFoundError")
                      /\ blocks' = blocks
                 ELSE IF HasStage(c, b, s)
                 THEN /\ call'.ret = Some(fresh)
                      /\ OnlyStageChanges(c, b, s)
                      /\ StageAfter(c, b, s) = fresh
                 ELSE /\ call'.ret = Some(fresh)
                      /\ DOMAIN blocks' = DOMAIN blocks
                      /\ AllBlocksAfter = AllBlocks
                      /\ \A t \in AllBlocks \ {<<c, b>>} :
                             blocks'[t[1]][t[2]] = blocks[t[1]][t[2]]
                      /\ Len(blocks'[c][b]) = Len(blocks[c][b]) + 1
                      /\ \A k \in DOMAIN blocks[c][b] :
                             blocks'[c][b][k] = blocks[c][b][k]
                      /\ blocks'[c][b][Len(blocks'[c][b])] = [name |-> s, data |-> fresh]
                      /\ blocks[c][b] # <<>> =>
                             _get_default_stage_output(blocks'[c][b]) =
                                 _get_default_stage_output(blocks[c][b])]_vars

\* the first of two stages, which had a selected version, was replaced by
\* a fresh stage with an input and is still the first
C26_Witness ==
    /\ call.op = "add_stage"
    /\ call.ret.some
    /\ \E t \in AllBlocks :
           /\ t[1] \in DOMAIN before
           /\ t[2] \in DOMAIN before[t[1]]
           /\ Len(blocks[t[1]][t[2]]) = 2
           /\ Len(before[t[1]][t[2]]) = 2
           /\ SelectedText(before[t[1]][t[2]][1].data) # None
           /\ blocks[t[1]][t[2]][1].name = before[t[1]][t[2]][1].name
           /\ blocks[t[1]][t[2]][1].data = call.ret.val
           /\ call.ret.val.input # <<>>
           /\ blocks[t[1]][t[2]][2] = before[t[1]][t[2]][2]

====
